---- MODULE Spec2Model ----
(***************************************************************************)
(* StaffAlloc: the allocation store (assignments, monthly allocations),    *)
(* the even-distribution allocator, the aggregation queries, the portfolio *)
(* dashboard and the burn-down engine, modelled from the backend sources.  *)
(*                                                                         *)
(* Hours of the burn-down engine are Python floats carrying two decimals;  *)
(* they are modelled as integers counting hundredths of an hour.  Hours of *)
(* the store are the integer columns of the tables.  A month key is the    *)
(* pair <<year, month>>, a date the triple <<year, month, day>>, and an    *)
(* Optional value is a sequence of length zero (None) or one.              *)
(***************************************************************************)
EXTENDS Integers, Sequences, FiniteSets, TLC

VARIABLES
    projects,      \* rows of table projects
    assignments,   \* rows of table project_assignments
    allocations,   \* rows of table allocations
    last,          \* the request handled last and its response
    burn,          \* a call of the burn-down engine: its inputs and result
    monthly_hour_overrides,  \* rows of table monthly_hour_overrides
    sessions       \* the distribute requests in flight, one database session each

vars == <<projects, assignments, allocations, last, burn, monthly_hour_overrides, sessions>>

(***************************************************************************)
(* Bounds of the model.                                                    *)
(***************************************************************************)
MaxWindows == 4
MaxAssignments == 2
MaxRows == 3

None == << >>
Some(x) == <<x>>

Max(a, b) == IF a >= b THEN a ELSE b
Min(a, b) == IF a <= b THEN a ELSE b

RECURSIVE SumSeq(_)
SumSeq(s) == IF s = << >> THEN 0 ELSE Head(s) + SumSeq(Tail(s))

(***************************************************************************)
(* Calendar / hours utility (app/utils/reporting.py).                      *)
(***************************************************************************)
IsLeap(year) == year % 4 = 0 /\ (year % 100 # 0 \/ year % 400 = 0)

DaysInMonth(year, month) ==
    IF month = 2 THEN (IF IsLeap(year) THEN 29 ELSE 28)
    ELSE IF month \in {4, 6, 9, 11} THEN 30 ELSE 31

DaysBeforeYear(year) ==
    LET y == year - 1 IN y * 365 + (y \div 4) - (y \div 100) + (y \div 400)

RECURSIVE DaysBeforeMonth(_, _)
DaysBeforeMonth(year, month) ==
    IF month = 1 THEN 0
    ELSE DaysBeforeMonth(year, month - 1) + DaysInMonth(year, month - 1)

\* date.weekday(): Monday is 0, Sunday is 6
Weekday(year, month, day) ==
    (DaysBeforeYear(year) + DaysBeforeMonth(year, month) + day + 6) % 7

\* itermonthdays2 pairs each day of the month with its weekday
standard_month_hours(year, month) ==
    LET first == Weekday(year, month, 1)
        business_days ==
            Cardinality({day \in 1..DaysInMonth(year, month) :
                            (first + day - 1) % 7 < 5})
    IN  business_days * 8

add_months(start, months) ==
    LET year == start[1] + ((start[2] - 1 + months) \div 12)
        month == ((start[2] - 1 + months) % 12) + 1
        day == Min(start[3], DaysInMonth(year, month))
    IN  <<year, month, day>>

\* date comparison, dates being <<year, month, day>>
DateLess(a, b) ==
    \/ a[1] < b[1]
    \/ a[1] = b[1] /\ a[2] < b[2]
    \/ a[1] = b[1] /\ a[2] = b[2] /\ a[3] < b[3]

RECURSIVE iter_months_loop(_, _, _)
iter_months_loop(current, lastday, months) ==
    IF DateLess(lastday, current) THEN months
    ELSE iter_months_loop(
            IF current[2] = 12 THEN <<current[1] + 1, 1, 1>>
                               ELSE <<current[1], current[2] + 1, 1>>,
            lastday,
            Append(months, <<current[1], current[2]>>))

\* the months between two dates, whichever comes first
iter_months_unordered(start, end) ==
    IF DateLess(end, start)
    THEN iter_months_loop(<<end[1], end[2], 1>>, <<start[1], start[2], 1>>, << >>)
    ELSE iter_months_loop(<<start[1], start[2], 1>>, <<end[1], end[2], 1>>, << >>)

iter_months(start, end) ==
    IF DateLess(end, start) THEN << >>
    ELSE iter_months_loop(<<start[1], start[2], 1>>, <<end[1], end[2], 1>>, << >>)

\* the standard hours of the month, whatever the overrides say
month_capacity_hours_standard(year, month, overrides) ==
    Max(standard_month_hours(year, month), 1)

\* overrides is a function from month keys to hours; the empty function
\* stands for both None and the empty mapping (both are falsy)
month_capacity_hours(year, month, overrides) ==
    IF /\ DOMAIN overrides # {}
       /\ <<year, month>> \in DOMAIN overrides
       /\ overrides[<<year, month>>] > 0
    THEN overrides[<<year, month>>]
    ELSE Max(standard_month_hours(year, month), 1)

(***************************************************************************)
(* Burn-down / distribution engine (app/utils/reporting.py).               *)
(***************************************************************************)
\* round(num / den, 2) of a non-negative quotient of hundredths, as a count
\* of hundredths.  A quotient exactly half way between two hundredths is
\* rounded by Python according to the binary value of the float, which may
\* lie on either side: up tells which side it is.
Round2(num, den, up) ==
    LET q == num \div den
        r == num % den
    IN  IF 2 * r < den THEN q
        ELSE IF 2 * r > den THEN q + 1
        ELSE IF up THEN q + 1 ELSE q

IsTie(num, den) == 2 * (num % den) = den

\* the standard hours of every window, overrides or not
CapacitiesStandard(month_windows, overrides) ==
    [i \in 1..Len(month_windows) |->
        Max(standard_month_hours(month_windows[i][1], month_windows[i][2]), 1)]

Capacities(month_windows, overrides) ==
    [i \in 1..Len(month_windows) |->
        month_capacity_hours(month_windows[i][1], month_windows[i][2], overrides)]

\* ties[i] tells how the i-th raw value is rounded should it be a tie
planned_hours_distribution_undrifted(total_hours, month_windows, overrides, ties) ==
    IF month_windows = << >> THEN << >>
    ELSE
      LET caps == Capacities(month_windows, overrides)
      IN  [i \in 1..Len(month_windows) |->
              Round2(caps[i] * total_hours, SumSeq(caps), ties[i])]

planned_hours_distribution(total_hours, month_windows, overrides, ties) ==
    IF month_windows = << >> THEN << >>
    ELSE
      LET n == Len(month_windows)
          caps0 == Capacities(month_windows, overrides)
          cap0 == SumSeq(caps0)
          capacities == IF cap0 <= 0 THEN [i \in 1..n |-> 1] ELSE caps0
          total_capacity == IF cap0 <= 0 THEN n ELSE cap0
          rounded == [i \in 1..n |->
                        Round2(capacities[i] * total_hours, total_capacity, ties[i])]
          difference == total_hours - SumSeq(rounded)
      IN  [i \in 1..n |-> IF i = n THEN rounded[n] + difference ELSE rounded[i]]

\* actual_allocations is a function from month keys to hundredths
ActualBurn(actual_allocations, key) ==
    IF key \in DOMAIN actual_allocations THEN actual_allocations[key] ELSE 0

\* the running remainder after a month's burn, floored at zero
RemainingUnclamped(remaining, burned) == remaining - burned

Remaining(remaining, burned) == Max(remaining - burned, 0)

RECURSIVE burn_down_loop(_, _, _, _, _, _, _)
burn_down_loop(index, month_windows, planned, actual_allocations, overrides, remaining, series) ==
    IF index > Len(month_windows) \/ index > Len(planned) THEN series
    ELSE
      LET key == month_windows[index]
          planned_burn == planned[index]
          actual_burn == ActualBurn(actual_allocations, key)
          planned_remaining == Remaining(remaining[1], planned_burn)
          actual_remaining == Remaining(remaining[2], actual_burn)
          point == [ planned_hours |-> planned_remaining,
                     actual_hours |-> actual_remaining,
                     planned_burn_hours |-> planned_burn,
                     actual_burn_hours |-> actual_burn,
                     capacity_hours |-> month_capacity_hours(key[1], key[2], overrides),
                     sprint_index |-> index,
                     date |-> <<key[1], key[2], 1>> ]
      IN  burn_down_loop(index + 1, month_windows, planned, actual_allocations,
                         overrides, <<planned_remaining, actual_remaining>>,
                         Append(series, point))

build_burn_down_series(total_hours, month_windows, actual_allocations, overrides, ties) ==
    LET distribution ==
            planned_hours_distribution(total_hours, month_windows, overrides, ties)
        padded == [i \in 1..Max(Len(distribution), Len(month_windows)) |->
                      IF i <= Len(distribution) THEN distribution[i] ELSE 0]
    IN  burn_down_loop(1, month_windows, padded, actual_allocations, overrides,
                       <<total_hours, total_hours>>, << >>)

(***************************************************************************)
(* Calls of the burn-down engine.  The inputs are drawn in BurnInit; one   *)
(* action applies planned_hours_distribution, the other                   *)
(* build_burn_down_series.                                                 *)
(***************************************************************************)
FirstWindow == <<2025, 12, 1>>
TotalValues == {0, 3, 100, 200}          \* hundredths of an hour
OverrideValues == {0, 1, 200}            \* hours
ActualValues == {100}                    \* hundredths of an hour

WindowsOf(n) ==
    IF n = 0 THEN << >> ELSE iter_months(FirstWindow, add_months(FirstWindow, n - 1))

Range(s) == {s[i] : i \in DOMAIN s}

BurnIdle ==
    [ pc |-> "idle", total_hours |-> 0, month_windows |-> << >>,
      actual_allocations |-> << >>, overrides |-> << >>,
      distribution |-> << >>, series |-> << >> ]

BurnInput(total_hours, month_windows, actual_allocations, overrides) ==
    [ pc |-> "input", total_hours |-> total_hours, month_windows |-> month_windows,
      actual_allocations |-> actual_allocations, overrides |-> overrides,
      distribution |-> << >>, series |-> << >> ]

\* the windows whose raw share lies exactly half way between two hundredths
TieWindows(total_hours, month_windows, overrides) ==
    LET caps == Capacities(month_windows, overrides)
        total_capacity == SumSeq(caps)
    IN  {i \in 1..Len(month_windows) : IsTie(caps[i] * total_hours, total_capacity)}

\* the ways the ties of a call may be rounded
TieChoices(total_hours, month_windows, overrides) ==
    LET tied == TieWindows(total_hours, month_windows, overrides)
    IN  { [i \in 1..Len(month_windows) |-> i \in up] : up \in SUBSET tied }

CallPlannedHoursDistribution ==
    /\ burn.pc = "input"
    /\ \E ties \in TieChoices(burn.total_hours, burn.month_windows, burn.overrides) :
          burn' = [burn EXCEPT
                     !.pc = "distributed",
                     !.distribution =
                         planned_hours_distribution(burn.total_hours,
                             burn.month_windows, burn.overrides, ties)]
    /\ UNCHANGED <<projects, assignments, allocations, last, monthly_hour_overrides, sessions>>

CallBuildBurnDownSeries ==
    /\ burn.pc = "input"
    /\ \E ties \in TieChoices(burn.total_hours, burn.month_windows, burn.overrides) :
          burn' = [burn EXCEPT
                     !.pc = "series",
                     !.series =
                         build_burn_down_series(burn.total_hours,
                             burn.month_windows, burn.actual_allocations,
                             burn.overrides, ties)]
    /\ UNCHANGED <<projects, assignments, allocations, last, monthly_hour_overrides, sessions>>

(***************************************************************************)
(* The store.  Users, roles and labour categories are the seeded rows;     *)
(* projects, assignments and allocations are tables.                       *)
(***************************************************************************)
Users ==
    { [id |-> 1, full_name |-> "Morgan Manager", system_role |-> "PM", manager_id |-> None],
      [id |-> 2, full_name |-> "Noel Manager", system_role |-> "PM", manager_id |-> None],
      [id |-> 3, full_name |-> "Alex Employee", system_role |-> "Employee", manager_id |-> Some(1)],
      [id |-> 4, full_name |-> "Blake Employee", system_role |-> "Employee", manager_id |-> Some(2)] }

Roles == { [id |-> 1, name |-> "Consultant"], [id |-> 2, name |-> "Engineer"] }

LCATs == { [id |-> 1, name |-> "Level 1"] }

SeedProjects ==
    { [id |-> 1, name |-> "Apollo", manager_id |-> Some(1), start_date |-> <<2025, 12, 15>>, sprints |-> 2],
      [id |-> 2, name |-> "Borealis", manager_id |-> Some(2), start_date |-> <<2026, 1, 5>>, sprints |-> 4] }

LastIdle ==
    [ op |-> "none", status |-> 0, assignment_id |-> 0, months |-> << >>,
      total_hours |-> 0, omitted |-> FALSE, existing |-> {}, response |-> << >>,
      detail |-> "" ]

\* a request slot without a request
SessionIdle == [ pc |-> "idle" ]

Slots == {1, 2}

NoSessions == [slot \in Slots |-> SessionIdle]

Result(op, status) == [LastIdle EXCEPT !.op = op, !.status = status]

\* raise HTTPException(status_code=status, detail=detail)
HTTPException(op, status, detail) == [Result(op, status) EXCEPT !.detail = detail]

MaxOf(S) == CHOOSE x \in S : \A y \in S : y <= x

\* the rowid SQLite gives to an inserted row: one more than the largest in the table
NextId(rows) == IF rows = {} THEN 1 ELSE MaxOf({r.id : r \in rows}) + 1

RECURSIVE SumHours(_)
SumHours(rows) ==
    IF rows = {} THEN 0
    ELSE LET r == CHOOSE x \in rows : TRUE
         IN  r.allocated_hours + SumHours(rows \ {r})

RECURSIVE SumFunded(_)
SumFunded(rows) ==
    IF rows = {} THEN 0
    ELSE LET r == CHOOSE x \in rows : TRUE
         IN  r.funded_hours + SumFunded(rows \ {r})

\* crud.get_project_assignment / get_allocation / get_project / get_user / ...
get_project_assignment(assignment_id) == {a \in assignments : a.id = assignment_id}
get_allocation(allocation_id) == {r \in allocations : r.id = allocation_id}
get_project(project_id) == {p \in projects : p.id = project_id}
get_user(user_id) == {u \in Users : u.id = user_id}
get_role(role_id) == {r \in Roles : r.id = role_id}
get_lcat(lcat_id) == {l \in LCATs : l.id = lcat_id}

get_assignment_by_user_and_project_unchecked(user_id, project_id) == {}

get_assignment_by_user_and_project(user_id, project_id) ==
    {a \in assignments : a.user_id = user_id /\ a.project_id = project_id}

\* relationship ProjectAssignment.allocations
\* the rows of every assignment
AllocationsOfAny(assignment_id) == allocations

\* no row: the relationship never loaded
AllocationsOfNone(assignment_id) == {}

AllocationsOf(assignment_id) ==
    {r \in allocations : r.project_assignment_id = assignment_id}

\* the table constraints of models.Allocation
uq_assignment_year_month_missing(rows) == TRUE

uq_assignment_year_month(rows) ==
    \A r1, r2 \in rows :
        (/\ r1.project_assignment_id = r2.project_assignment_id
         /\ r1.year = r2.year
         /\ r1.month = r2.month) => r1.id = r2.id

ck_allocation(rows) ==
    \A r \in rows : r.month >= 1 /\ r.month <= 12 /\ r.allocated_hours >= 0

\* the table constraints of models.ProjectAssignment
uq_project_user(rows) ==
    \A a1, a2 \in rows :
        (a1.project_id = a2.project_id /\ a1.user_id = a2.user_id) => a1.id = a2.id

(***************************************************************************)
(* Requests.                                                               *)
(***************************************************************************)
\* str.lower() on the strategies a request may carry
Lower(str) == IF str = "EVEN" THEN "even" ELSE str

\* Field(..., ge=2020, le=2050) and Field(..., ge=1, le=12) of the schemas
ValidYear(year) == year >= 2020 /\ year <= 2050
ValidMonthAny(month) == TRUE

ValidMonth(month) == month >= 1 /\ month <= 12

(***************************************************************************)
(* POST /allocations/assignments                                           *)
(***************************************************************************)
create_project_assignment(project_id, user_id, role_id, lcat_id, funded_hours) ==
    IF funded_hours < 0
    THEN /\ last' = Result("create_assignment", 422)
         /\ UNCHANGED <<projects, assignments, allocations, burn, monthly_hour_overrides, sessions>>
    ELSE IF get_assignment_by_user_and_project(user_id, project_id) # {}
    THEN /\ last' = Result("create_assignment", 400)
         /\ UNCHANGED <<projects, assignments, allocations, burn, monthly_hour_overrides, sessions>>
    ELSE IF \/ get_project(project_id) = {}
            \/ get_user(user_id) = {}
            \/ get_role(role_id) = {}
            \/ get_lcat(lcat_id) = {}
    THEN /\ last' = Result("create_assignment", 404)
         /\ UNCHANGED <<projects, assignments, allocations, burn, monthly_hour_overrides, sessions>>
    ELSE LET row == [ id |-> NextId(assignments), project_id |-> project_id,
                      user_id |-> user_id, role_id |-> role_id,
                      lcat_id |-> lcat_id, funded_hours |-> funded_hours ]
             inserted == assignments \cup {row}
         IN  IF uq_project_user(inserted)
             THEN /\ Cardinality(assignments) < MaxAssignments
                  /\ assignments' = inserted
                  /\ last' = [Result("create_assignment", 201) EXCEPT
                                 !.assignment_id = row.id]
                  /\ UNCHANGED <<projects, allocations, burn, monthly_hour_overrides, sessions>>
             ELSE \* IntegrityError on commit: the request fails, nothing is stored
                  /\ last' = Result("create_assignment", 500)
                  /\ UNCHANGED <<projects, assignments, allocations, burn, monthly_hour_overrides, sessions>>

(***************************************************************************)
(* POST /allocations/                                                      *)
(***************************************************************************)
create_allocation(project_assignment_id, year, month, allocated_hours) ==
    IF ~(ValidYear(year) /\ ValidMonth(month) /\ allocated_hours >= 0)
    THEN /\ last' = Result("create_allocation", 422)
         /\ UNCHANGED <<projects, assignments, allocations, burn, monthly_hour_overrides, sessions>>
    ELSE IF get_project_assignment(project_assignment_id) = {}
    THEN /\ last' = Result("create_allocation", 404)
         /\ UNCHANGED <<projects, assignments, allocations, burn, monthly_hour_overrides, sessions>>
    ELSE LET row == [ id |-> NextId(allocations),
                      project_assignment_id |-> project_assignment_id,
                      year |-> year, month |-> month,
                      allocated_hours |-> allocated_hours ]
             inserted == allocations \cup {row}
         IN  IF uq_assignment_year_month(inserted) /\ ck_allocation(inserted)
             THEN /\ Cardinality(allocations) < MaxRows
                  /\ row.id <= MaxRows
                  /\ allocations' = inserted
                  /\ last' = [Result("create_allocation", 201) EXCEPT
                                 !.assignment_id = project_assignment_id,
                                 !.months = <<(<<year, month>>)>>,
                                 !.response = <<row>>]
                  /\ UNCHANGED <<projects, assignments, burn, monthly_hour_overrides, sessions>>
             ELSE \* IntegrityError on commit: the request fails, nothing is stored
                  /\ last' = Result("create_allocation", 500)
                  /\ UNCHANGED <<projects, assignments, allocations, burn, monthly_hour_overrides, sessions>>

(***************************************************************************)
(* PUT /allocations/{allocation_id}                                        *)
(***************************************************************************)
update_allocation(allocation_id, allocated_hours) ==
    IF allocated_hours < 0
    THEN /\ last' = Result("update_allocation", 422)
         /\ UNCHANGED <<projects, assignments, allocations, burn, monthly_hour_overrides, sessions>>
    ELSE IF get_allocation(allocation_id) = {}
    THEN /\ last' = Result("update_allocation", 404)
         /\ UNCHANGED <<projects, assignments, allocations, burn, monthly_hour_overrides, sessions>>
    ELSE LET old == CHOOSE r \in allocations : r.id = allocation_id
             new == [old EXCEPT !.allocated_hours = allocated_hours]
         IN  /\ allocations' = (allocations \ {old}) \cup {new}
             /\ last' = [Result("update_allocation", 200) EXCEPT
                            !.assignment_id = old.project_assignment_id,
                            !.months = <<(<<old.year, old.month>>)>>,
                            !.response = <<new>>]
             /\ UNCHANGED <<projects, assignments, burn, monthly_hour_overrides, sessions>>

(***************************************************************************)
(* DELETE /allocations/{allocation_id}                                     *)
(***************************************************************************)
delete_allocation(allocation_id) ==
    IF get_allocation(allocation_id) = {}
    THEN /\ last' = Result("delete_allocation", 404)
         /\ UNCHANGED <<projects, assignments, allocations, burn, monthly_hour_overrides, sessions>>
    ELSE /\ allocations' = allocations \ get_allocation(allocation_id)
         /\ last' = Result("delete_allocation", 204)
         /\ UNCHANGED <<projects, assignments, burn, monthly_hour_overrides, sessions>>

(***************************************************************************)
(* POST /allocations/assignments/{assignment_id}/distribute                *)
(***************************************************************************)
\* hours of the month at 0-based position index
ShareLatest(total_hours, month_count, index) ==
    LET base_hours == total_hours \div month_count
        remainder == total_hours % month_count
    IN  base_hours + (IF index >= month_count - remainder THEN 1 ELSE 0)

Share(total_hours, month_count, index) ==
    LET base_hours == total_hours \div month_count
        remainder == total_hours % month_count
    IN  base_hours + (IF index < remainder THEN 1 ELSE 0)

\* the total of a request without one is all the funded hours
ResolveTotalFunded(assignment, total_hours) ==
    IF total_hours = None THEN assignment.funded_hours ELSE total_hours[1]

\* the total a request stands for: its own, or the remaining funded hours
ResolveTotal(assignment, total_hours) ==
    IF total_hours = None
    THEN LET current_allocated == SumHours(AllocationsOf(assignment.id))
         IN  Max(assignment.funded_hours - current_allocated, 0)
    ELSE total_hours[1]

\* allocation.allocated_hours = hours on a row the assignment already has
UpdateInPlaceStale(old, hours) == old

\* allocation.allocated_hours += hours
UpdateInPlaceAdding(old, hours) == [old EXCEPT !.allocated_hours = @ + hours]

UpdateInPlace(old, hours) == [old EXCEPT !.allocated_hours = hours]

\* the upsert loop: rows is the table with the session's pending changes,
\* updated the list updated_allocations
RECURSIVE distribute_loop(_, _, _, _, _, _)
distribute_loop(index, months, assignment_id, total_hours, rows, updated) ==
    IF index > Len(months) THEN <<rows, updated>>
    ELSE
      LET key == months[index]
          hours == Share(total_hours, Len(months), index - 1)
          existing == {r \in AllocationsOf(assignment_id) :
                          r.year = key[1] /\ r.month = key[2]}
      IN  IF existing # {}
          THEN LET old == CHOOSE r \in existing : TRUE
                   new == UpdateInPlace(old, hours)
               IN  distribute_loop(index + 1, months, assignment_id, total_hours,
                                   (rows \ {old}) \cup {new}, Append(updated, new))
          ELSE LET new == [ id |-> NextId(rows),
                            project_assignment_id |-> assignment_id,
                            year |-> key[1], month |-> key[2],
                            allocated_hours |-> hours ]
               IN  distribute_loop(index + 1, months, assignment_id, total_hours,
                                   rows \cup {new}, Append(updated, new))

distribute_assignment_hours(assignment_id, start, end, total_hours, strategy) ==
    IF ~(/\ ValidYear(start[1]) /\ ValidMonth(start[2])
         /\ ValidYear(end[1]) /\ ValidMonth(end[2])
         /\ (total_hours = None \/ total_hours[1] >= 0))
    THEN /\ last' = Result("distribute", 422)
         /\ UNCHANGED <<projects, assignments, allocations, burn, monthly_hour_overrides, sessions>>
    ELSE IF get_project_assignment(assignment_id) = {}
    THEN /\ last' = HTTPException("distribute", 404, "Project assignment not found")
         /\ UNCHANGED <<projects, assignments, allocations, burn, monthly_hour_overrides, sessions>>
    ELSE IF strategy # None /\ strategy[1] # "" /\ Lower(strategy[1]) # "even"
    THEN /\ last' = HTTPException("distribute", 400, "Only the 'even' distribution strategy is currently supported.")
         /\ UNCHANGED <<projects, assignments, allocations, burn, monthly_hour_overrides, sessions>>
    ELSE
      LET assignment == CHOOSE a \in assignments : a.id = assignment_id
          months == iter_months(<<start[1], start[2], 1>>, <<end[1], end[2], 1>>)
          total == ResolveTotal(assignment, total_hours)
      IN  IF months = << >>
          THEN /\ last' = HTTPException("distribute", 400, "The month range must include at least one month.")
               /\ UNCHANGED <<projects, assignments, allocations, burn, monthly_hour_overrides, sessions>>
          ELSE IF total < 0
          THEN /\ last' = HTTPException("distribute", 400, "Total hours must be greater than or equal to zero.")
               /\ UNCHANGED <<projects, assignments, allocations, burn, monthly_hour_overrides, sessions>>
          ELSE
            LET done == distribute_loop(1, months, assignment_id, total,
                                        allocations, << >>)
                rows == done[1]
                updated == done[2]
            IN  IF uq_assignment_year_month(rows) /\ ck_allocation(rows)
                THEN /\ Cardinality(rows) <= MaxRows
                     /\ \A r \in rows : r.id <= MaxRows
                     /\ allocations' = rows
                     /\ last' = [ op |-> "distribute", status |-> 200,
                                  assignment_id |-> assignment_id,
                                  months |-> months, total_hours |-> total,
                                  omitted |-> (total_hours = None),
                                  existing |->
                                      {r.id : r \in {x \in AllocationsOf(assignment_id) :
                                                  <<x.year, x.month>> \in Range(months)}},
                                  response |-> updated, detail |-> "" ]
                     /\ UNCHANGED <<projects, assignments, burn, monthly_hour_overrides, sessions>>
                ELSE /\ last' = Result("distribute", 500)
                     /\ UNCHANGED <<projects, assignments, allocations, burn, monthly_hour_overrides, sessions>>

(***************************************************************************)
(* Distribute requests in flight.  Each request has a session of its own   *)
(* (get_db).  The session loads assignment.allocations once, with a SELECT *)
(* outside any transaction; the loop then decides on the loaded rows, and  *)
(* db.commit() flushes the pending UPDATEs and INSERTs in one transaction. *)
(* Requests are handled by a thread pool, so the load of one request and   *)
(* the commit of another may come in either order.                         *)
(***************************************************************************)
\* the rows a session decides on: those it loaded, whatever the table holds since
SessionViewFresh(loaded, current) == current

SessionView(loaded, current) == loaded

\* lines 141-196: validation and the load of the assignment's allocations
read_distribute(slot, assignment_id, start, end, total_hours, strategy) ==
    /\ sessions[slot].pc = "idle"
    /\ IF ~(/\ ValidYear(start[1]) /\ ValidMonth(start[2])
            /\ ValidYear(end[1]) /\ ValidMonth(end[2])
            /\ (total_hours = None \/ total_hours[1] >= 0))
       THEN /\ last' = Result("distribute", 422)
            /\ UNCHANGED <<projects, assignments, allocations, burn, monthly_hour_overrides, sessions>>
       ELSE IF get_project_assignment(assignment_id) = {}
       THEN /\ last' = HTTPException("distribute", 404, "Project assignment not found")
            /\ UNCHANGED <<projects, assignments, allocations, burn, monthly_hour_overrides, sessions>>
       ELSE IF strategy # None /\ strategy[1] # "" /\ Lower(strategy[1]) # "even"
       THEN /\ last' = HTTPException("distribute", 400, "Only the 'even' distribution strategy is currently supported.")
            /\ UNCHANGED <<projects, assignments, allocations, burn, monthly_hour_overrides, sessions>>
       ELSE
         LET assignment == CHOOSE a \in assignments : a.id = assignment_id
             months == iter_months(<<start[1], start[2], 1>>, <<end[1], end[2], 1>>)
         IN  IF months = << >>
             THEN /\ last' = HTTPException("distribute", 400, "The month range must include at least one month.")
                  /\ UNCHANGED <<projects, assignments, allocations, burn, monthly_hour_overrides, sessions>>
             ELSE /\ sessions' =
                        [sessions EXCEPT ![slot] =
                            [ pc |-> "read", assignment_id |-> assignment_id,
                              funded_hours |-> assignment.funded_hours,
                              months |-> months, total_hours |-> total_hours,
                              loaded |-> AllocationsOf(assignment_id),
                              read_after |-> {other \in Slots :
                                                sessions[other].pc = "done"} ]]
                  /\ UNCHANGED <<projects, assignments, allocations, last, burn, monthly_hour_overrides>>

\* the rows of the table after the session's flush: an UPDATE for a loaded
\* row whose hours change, an INSERT for a month without a loaded row
RECURSIVE flush_loop(_, _, _, _, _)
flush_loop(index, session, view, total, rows) ==
    IF index > Len(session.months) THEN rows
    ELSE
      LET key == session.months[index]
          hours == Share(total, Len(session.months), index - 1)
          existing == {r \in view : r.year = key[1] /\ r.month = key[2]}
      IN  IF existing # {}
          THEN LET old == CHOOSE r \in existing : TRUE
                   stored == {r \in rows : r.id = old.id}
               IN  IF hours = old.allocated_hours
                   THEN flush_loop(index + 1, session, view, total, rows)
                   ELSE flush_loop(index + 1, session, view, total,
                                   (rows \ stored)
                                       \cup {UpdateInPlace(r, hours) : r \in stored})
          ELSE flush_loop(index + 1, session, view, total,
                          rows \cup {[ id |-> NextId(rows),
                                       project_assignment_id |-> session.assignment_id,
                                       year |-> key[1], month |-> key[2],
                                       allocated_hours |-> hours ]})

\* lines 170-218: the total, the loop, the commit and the refreshed response
commit_distribute(slot) ==
    LET session == sessions[slot]
    IN  /\ session.pc = "read"
        /\ LET view == SessionView(session.loaded, AllocationsOf(session.assignment_id))
               total == IF session.total_hours = None
                        THEN Max(session.funded_hours - SumHours(view), 0)
                        ELSE session.total_hours[1]
               rows == flush_loop(1, session, view, total, allocations)
               \* an UPDATE of a row that is gone matches no row (StaleDataError)
               matched == \A r \in view :
                             <<r.year, r.month>> \in Range(session.months)
                                 => \E x \in allocations : x.id = r.id
               refreshed == [i \in 1..Len(session.months) |->
                               CHOOSE r \in rows :
                                   /\ r.project_assignment_id = session.assignment_id
                                   /\ <<r.year, r.month>> = session.months[i]]
               done(status) == [ pc |-> "done", status |-> status,
                                 months |-> session.months,
                                 omitted |-> (session.total_hours = None),
                                 total_hours |-> total,
                                 read_after |-> session.read_after ]
           IN  IF matched /\ uq_assignment_year_month(rows) /\ ck_allocation(rows)
               THEN /\ Cardinality(rows) <= MaxRows
                    /\ \A r \in rows : r.id <= MaxRows
                    /\ allocations' = rows
                    /\ last' = [ op |-> "distribute", status |-> 200,
                                 assignment_id |-> session.assignment_id,
                                 months |-> session.months, total_hours |-> total,
                                 omitted |-> (session.total_hours = None),
                                 existing |->
                                     {r.id : r \in {x \in view :
                                         <<x.year, x.month>> \in Range(session.months)}},
                                 response |-> refreshed, detail |-> "" ]
                    /\ sessions' = [sessions EXCEPT ![slot] = done(200)]
                    /\ UNCHANGED <<projects, assignments, burn, monthly_hour_overrides>>
               ELSE \* IntegrityError on flush: rollback, the request fails
                    /\ last' = Result("distribute", 500)
                    /\ sessions' = [sessions EXCEPT ![slot] = done(500)]
                    /\ UNCHANGED <<projects, assignments, allocations, burn, monthly_hour_overrides>>

(***************************************************************************)
(* Deletes and monthly hour overrides.  The foreign keys are declared ON   *)
(* DELETE CASCADE and every connection sets PRAGMA foreign_keys=ON, so a   *)
(* delete takes the referencing rows with it.                              *)
(***************************************************************************)
\* the rows of table rows whose column refers to one of the deleted ids
CascadeNone(rows, column, ids) == {}

Cascade(rows, column, ids) == {r \in rows : r[column] \in ids}

\* DELETE /allocations/assignments/{assignment_id}
delete_project_assignment(assignment_id) ==
    IF get_project_assignment(assignment_id) = {}
    THEN /\ last' = Result("delete_assignment", 404)
         /\ UNCHANGED <<projects, assignments, allocations, burn, monthly_hour_overrides, sessions>>
    ELSE /\ assignments' = assignments \ get_project_assignment(assignment_id)
         /\ allocations' =
                allocations \ Cascade(allocations, "project_assignment_id", {assignment_id})
         /\ last' = [Result("delete_assignment", 204) EXCEPT !.assignment_id = assignment_id]
         /\ UNCHANGED <<projects, burn, monthly_hour_overrides, sessions>>

\* DELETE /projects/{project_id}
delete_project(project_id) ==
    IF get_project(project_id) = {}
    THEN /\ last' = Result("delete_project", 404)
         /\ UNCHANGED <<projects, assignments, allocations, burn, monthly_hour_overrides, sessions>>
    ELSE LET gone == Cascade(assignments, "project_id", {project_id})
         IN  /\ projects' = projects \ get_project(project_id)
             /\ assignments' = assignments \ gone
             /\ allocations' =
                    allocations \ Cascade(allocations, "project_assignment_id",
                                          {a.id : a \in gone})
             /\ monthly_hour_overrides' =
                    monthly_hour_overrides
                        \ Cascade(monthly_hour_overrides, "project_id", {project_id})
             /\ last' = Result("delete_project", 204)
             /\ UNCHANGED <<burn, sessions>>

\* the table constraints of models.MonthlyHourOverride
uq_override_project_year_month(rows) ==
    \A o1, o2 \in rows :
        (o1.project_id = o2.project_id /\ o1.year = o2.year /\ o1.month = o2.month)
            => o1.id = o2.id

\* POST /projects/overrides
create_monthly_hour_override(project_id, year, month, overridden_hours) ==
    IF ~(ValidYear(year) /\ ValidMonth(month) /\ overridden_hours > 0)
    THEN /\ last' = Result("create_override", 422)
         /\ UNCHANGED <<projects, assignments, allocations, burn, monthly_hour_overrides, sessions>>
    ELSE IF get_project(project_id) = {}
    THEN /\ last' = Result("create_override", 404)
         /\ UNCHANGED <<projects, assignments, allocations, burn, monthly_hour_overrides, sessions>>
    ELSE LET row == [ id |-> NextId(monthly_hour_overrides), project_id |-> project_id,
                      year |-> year, month |-> month,
                      overridden_hours |-> overridden_hours ]
             inserted == monthly_hour_overrides \cup {row}
         IN  IF uq_override_project_year_month(inserted)
             THEN /\ monthly_hour_overrides' = inserted
                  /\ last' = Result("create_override", 201)
                  /\ UNCHANGED <<projects, assignments, allocations, burn, sessions>>
             ELSE /\ last' = Result("create_override", 500)
                  /\ UNCHANGED <<projects, assignments, allocations, burn, monthly_hour_overrides, sessions>>

(***************************************************************************)
(* Allocation aggregation layer (app/crud.py).  A query result is the set  *)
(* of its rows; db is the store the session reads and manager_id is None   *)
(* (unscoped) or Some(id).                                                 *)
(***************************************************************************)
ScopedAssignmentsUnscoped(db, manager_id) == db.assignments

\* JOIN projects ... WHERE projects.manager_id = :manager_id, when a scope is given
ScopedAssignments(db, manager_id) ==
    IF manager_id = None THEN db.assignments
    ELSE {a \in db.assignments :
            \E p \in db.projects : p.id = a.project_id /\ p.manager_id = manager_id}

\* allocations_sq without its GROUP BY: a row per allocation
allocations_sq_ungrouped(db) ==
    { [ assignment_id |-> r.project_assignment_id,
        allocated_hours |-> r.allocated_hours, of |-> {r.id} ] : r \in db.allocations }

\* allocations_sq: SUM(allocated_hours) GROUP BY project_assignment_id; of
\* names the allocations a row stands for
allocations_sq(db) ==
    { [ assignment_id |-> id,
        allocated_hours |->
            SumHours({r \in db.allocations : r.project_assignment_id = id}),
        of |-> {r.id : r \in {x \in db.allocations : x.project_assignment_id = id}} ] :
      id \in {r.project_assignment_id : r \in db.allocations} }

\* roles JOIN assignments_sq LEFT OUTER JOIN allocations_sq, grouped by role
get_role_capacity_summary(db, manager_id) ==
    LET assignments_sq == ScopedAssignments(db, manager_id)
        matched(a) == {x \in allocations_sq(db) : x.assignment_id = a.id}
        joined ==
            { [ role_id |-> j[1].role_id, assignment_id |-> j[1].id,
                funded_hours |-> j[1].funded_hours,
                allocated_hours |-> j[2].allocated_hours, of |-> j[2].of ] :
              j \in {k \in assignments_sq \X allocations_sq(db) :
                        k[2].assignment_id = k[1].id} }
            \cup
            { [ role_id |-> a.role_id, assignment_id |-> a.id,
                funded_hours |-> a.funded_hours,
                allocated_hours |-> 0, of |-> {} ] :
              a \in {k \in assignments_sq : matched(k) = {}} }
    IN  { [ role_id |-> role.id, role_name |-> role.name,
            funded_hours |-> SumFunded({j \in joined : j.role_id = role.id}),
            allocated_hours |-> SumHours({j \in joined : j.role_id = role.id}) ] :
          role \in {ro \in Roles : \E j \in joined : j.role_id = ro.id} }

get_monthly_user_allocation_totals(db, manager_id) ==
    LET joined == {<<a, r>> \in ScopedAssignments(db, manager_id) \X db.allocations :
                      r.project_assignment_id = a.id}
        groups == {<<j[1].user_id, j[2].year, j[2].month>> : j \in joined}
    IN  { [ user_id |-> g[1], year |-> g[2], month |-> g[3],
            total_hours |->
                SumHours({j[2] : j \in {k \in joined :
                            /\ k[1].user_id = g[1]
                            /\ k[2].year = g[2]
                            /\ k[2].month = g[3]}}) ] : g \in groups }

get_monthly_user_project_allocations(db, user_id, manager_id) ==
    LET joined == {<<a, r, p>> \in db.assignments \X db.allocations \X db.projects :
                      /\ r.project_assignment_id = a.id
                      /\ p.id = a.project_id
                      /\ (user_id = None \/ a.user_id = user_id[1])
                      /\ (manager_id = None \/ p.manager_id = manager_id)}
        groups == {<<j[1].user_id, j[1].project_id, j[3].name, j[2].year, j[2].month>> :
                      j \in joined}
    IN  { [ user_id |-> g[1], project_id |-> g[2], project_name |-> g[3],
            year |-> g[4], month |-> g[5],
            allocated_hours |->
                SumHours({j[2] : j \in {k \in joined :
                            /\ k[1].user_id = g[1]
                            /\ k[1].project_id = g[2]
                            /\ k[2].year = g[4]
                            /\ k[2].month = g[5]}}) ] : g \in groups }

get_user_role_funding_totals(db, manager_id) ==
    LET joined == {<<a, role>> \in ScopedAssignments(db, manager_id) \X Roles :
                      role.id = a.role_id}
        groups == {<<j[1].user_id, j[2].name>> : j \in joined}
    IN  { [ user_id |-> g[1], role_name |-> g[2],
            funded_hours |->
                SumFunded({j[1] : j \in {k \in joined :
                            k[1].user_id = g[1] /\ k[2].name = g[2]}}) ] :
          g \in groups }

\* monthly_allocations_sq without the month in its join condition
monthly_allocations_sq_any_month(db, year, month) ==
    { [ role_id |-> role_id,
        allocated_hours |->
            SumHours({r \in db.allocations :
                        \E a \in db.assignments :
                            a.role_id = role_id /\ a.id = r.project_assignment_id}) ] :
      role_id \in {a.role_id : a \in {x \in db.assignments :
                      \E r \in db.allocations : r.project_assignment_id = x.id}} }

\* assignments JOIN the month's allocations, SUM(allocated_hours) GROUP BY role_id
monthly_allocations_sq(db, year, month) ==
    LET monthly == {r \in db.allocations : r.year = year /\ r.month = month}
    IN  { [ role_id |-> role_id,
            allocated_hours |->
                SumHours({r \in monthly :
                            \E a \in db.assignments :
                                a.role_id = role_id /\ a.id = r.project_assignment_id}) ] :
          role_id \in {a.role_id : a \in {x \in db.assignments :
                          \E r \in monthly : r.project_assignment_id = x.id}} }

\* SUM(funded_hours), COUNT(id) of the assignments GROUP BY role_id
assignment_totals_sq(db) ==
    { [ role_id |-> role_id,
        funded_hours |-> SumFunded({a \in db.assignments : a.role_id = role_id}),
        assignment_count |->
            Cardinality({a \in db.assignments : a.role_id = role_id}) ] :
      role_id \in {a.role_id : a \in db.assignments} }

\* roles LEFT OUTER JOIN assignment_totals_sq LEFT OUTER JOIN
\* monthly_allocations_sq, keeping the rows where one of the two matched;
\* None stands for the NULLs of an unmatched side.  Takes no manager scope.
get_role_utilization_snapshot(db, year, month) ==
    LET totals(role) ==
            LET matched == {t \in assignment_totals_sq(db) : t.role_id = role.id}
            IN  IF matched = {} THEN {None} ELSE {Some(t) : t \in matched}
        monthly(role) ==
            LET matched == {m \in monthly_allocations_sq(db, year, month) :
                               m.role_id = role.id}
            IN  IF matched = {} THEN {None} ELSE {Some(m) : m \in matched}
        joined == UNION { {<<role, t, m>> : t \in totals(role), m \in monthly(role)} :
                          role \in Roles }
    IN  { [ role_id |-> j[1].id, role_name |-> j[1].name,
            allocated_hours |-> IF j[3] = None THEN 0 ELSE j[3][1].allocated_hours,
            funded_hours |-> IF j[2] = None THEN 0 ELSE j[2][1].funded_hours,
            assignment_count |-> IF j[2] = None THEN 0 ELSE j[2][1].assignment_count ] :
          j \in {k \in joined : k[2] # None \/ k[3] # None} }

\* crud.get_users: ordered by full_name
UsersByName ==
    << CHOOSE u \in Users : u.id = 3, CHOOSE u \in Users : u.id = 4,
       CHOOSE u \in Users : u.id = 1, CHOOSE u \in Users : u.id = 2 >>

get_users(manager_id, system_role) ==
    SelectSeq(UsersByName,
              LAMBDA u : /\ u.system_role = system_role
                         /\ (manager_id = None \/ u.manager_id = manager_id))

(***************************************************************************)
(* Portfolio dashboard (app/api/reports.py).  today is a month key.        *)
(* fte_percentage, round(100 * total_hours / standard_hours, 2), is left   *)
(* out of a summary: it grows strictly with total_hours, so the sort by it *)
(* is the sort by total_hours.  The percentages overall_utilization_pct    *)
(* and fte_by_role and the inferred primary role are not modelled.         *)
(***************************************************************************)
\* list.sort(key=..., reverse=True): stable, descending by the first component
RECURSIVE InsertDesc(_, _)
InsertDesc(sorted, x) ==
    IF sorted = << >> THEN <<x>>
    ELSE IF Head(sorted)[1] >= x[1] THEN <<Head(sorted)>> \o InsertDesc(Tail(sorted), x)
    ELSE <<x>> \o sorted

RECURSIVE SortDesc(_)
SortDesc(s) ==
    IF s = << >> THEN << >>
    ELSE InsertDesc(SortDesc(SubSeq(s, 1, Len(s) - 1)), s[Len(s)])

\* current_fte > 1.0 and current_fte <= 0.25, current_fte being the float
\* current_hours / standard_hours
OverAllocatedAtFull(current_hours, standard_hours) == current_hours >= standard_hours

OverAllocated(current_hours, standard_hours) == current_hours > standard_hours
OnBench(current_hours, standard_hours) == 4 * current_hours <= standard_hours

get_portfolio_dashboard(db, manager_id, today) ==
    LET standard_hours_this_month == Max(standard_month_hours(today[1], today[2]), 1)
        monthly_user_totals == get_monthly_user_allocation_totals(db, manager_id)
        current_rows == {row \in monthly_user_totals :
                            row.year = today[1] /\ row.month = today[2]}
        current_hours(user_id) ==
            IF \E row \in current_rows : row.user_id = user_id
            THEN (CHOOSE row \in current_rows : row.user_id = user_id).total_hours
            ELSE 0
        project_allocations == get_monthly_user_project_allocations(db, None, manager_id)
        breakdown(user_id) ==
            { [ project_id |-> row.project_id, project_name |-> row.project_name,
                allocated_hours |-> row.allocated_hours ] :
              row \in {x \in project_allocations :
                          /\ x.user_id = user_id
                          /\ x.year = today[1] /\ x.month = today[2]} }
        employees == get_users(manager_id, "Employee")
        summary_data(employee) ==
            [ user_id |-> employee.id, full_name |-> employee.full_name,
              total_hours |-> current_hours(employee.id),
              projects |-> breakdown(employee.id),
              available_hours |-> None ]
        summaries == [i \in 1..Len(employees) |-> summary_data(employees[i])]
        over_allocated ==
            SelectSeq(summaries,
                      LAMBDA e : OverAllocated(e.total_hours, standard_hours_this_month))
        benched ==
            SelectSeq(summaries,
                      LAMBDA e : /\ ~OverAllocated(e.total_hours, standard_hours_this_month)
                                 /\ OnBench(e.total_hours, standard_hours_this_month))
        bench ==
            [i \in 1..Len(benched) |->
                [benched[i] EXCEPT !.available_hours =
                    Some(Max(standard_hours_this_month - benched[i].total_hours, 0))]]
        by_hours(s) == [i \in 1..Len(s) |-> <<s[i].total_hours, s[i]>>]
        by_available(s) == [i \in 1..Len(s) |-> <<s[i].available_hours[1], s[i]>>]
        items(s) == [i \in 1..Len(s) |-> s[i][2]]
    IN  [ total_projects |->
              Cardinality({p \in db.projects : p.manager_id = manager_id}),
          total_employees |->
              Cardinality({u \in Users : /\ u.system_role = "Employee"
                                         /\ u.manager_id = manager_id}),
          over_allocated_employees |-> items(SortDesc(by_hours(over_allocated))),
          bench_employees |-> items(SortDesc(by_available(bench))) ]

(***************************************************************************)
(* GET /reports/project-dashboard/{project_id} (app/api/reports.py).       *)
(* The hours handed to the burn-down engine are floats: hundredths here.   *)
(***************************************************************************)
\* comparison of (year, month) tuples
KeyLess(a, b) == a[1] < b[1] \/ (a[1] = b[1] /\ a[2] < b[2])

\* start + timedelta(days=days)
RECURSIVE AddDays(_, _)
AddDays(start, days) ==
    IF days = 0 THEN start
    ELSE IF start[3] < DaysInMonth(start[1], start[2])
    THEN AddDays(<<start[1], start[2], start[3] + 1>>, days - 1)
    ELSE IF start[2] < 12
    THEN AddDays(<<start[1], start[2] + 1, 1>>, days - 1)
    ELSE AddDays(<<start[1] + 1, 1, 1>>, days - 1)

\* a sprint taken for a month
default_project_end_in_months(start, sprints) == add_months(start, sprints)

default_project_end(start, sprints) ==
    LET total_days == sprints * 14
    IN  AddDays(start, total_days)

\* allocations JOIN project_assignments WHERE project_assignments.project_id = :project_id
ProjectAllocations(db, project_id) ==
    {r \in db.allocations :
        \E a \in db.assignments :
            a.id = r.project_assignment_id /\ a.project_id = project_id}

\* one row per (year, month) of the project, ordered by year and month
get_project_monthly_allocations(db, project_id) ==
    LET rows == ProjectAllocations(db, project_id)
        keys == {<<r.year, r.month>> : r \in rows}
        n == Cardinality(keys)
        ordered == CHOOSE s \in [1..n -> keys] :
                       \A i, j \in 1..n : i < j => KeyLess(s[i], s[j])
    IN  [i \in 1..n |->
            [ year |-> ordered[i][1], month |-> ordered[i][2],
              allocated_hours |->
                  SumHours({r \in rows : <<r.year, r.month>> = ordered[i]}) ]]

\* the allocated hours of every project
get_project_funded_and_allocated_totals_all(db, project_id) ==
    [ funded_hours |->
          SumFunded({a \in db.assignments : a.project_id = project_id}),
      allocated_hours |-> SumHours(db.allocations) ]

get_project_funded_and_allocated_totals(db, project_id) ==
    [ funded_hours |->
          SumFunded({a \in db.assignments : a.project_id = project_id}),
      allocated_hours |-> SumHours(ProjectAllocations(db, project_id)) ]

get_overrides_for_project(db, project_id) ==
    {o \in db.monthly_hour_overrides : o.project_id = project_id}

\* allocation_map: (year, month) -> float(allocated_hours)
AllocationMap(db, project_id) ==
    LET monthly_allocations == get_project_monthly_allocations(db, project_id)
    IN  [key \in {<<monthly_allocations[i].year, monthly_allocations[i].month>> :
                     i \in 1..Len(monthly_allocations)} |->
            LET row == CHOOSE i \in 1..Len(monthly_allocations) :
                          <<monthly_allocations[i].year, monthly_allocations[i].month>> = key
            IN  100 * monthly_allocations[row].allocated_hours]

\* override_map: (year, month) -> overridden_hours
OverrideMap(db, project_id) ==
    LET overrides == get_overrides_for_project(db, project_id)
    IN  [key \in {<<o.year, o.month>> : o \in overrides} |->
            (CHOOSE o \in overrides : <<o.year, o.month>> = key).overridden_hours]

\* the window from the project's start to its estimated end, allocations or not
ReportingWindowPlanned(db_project, allocation_map) ==
    LET start_month == <<db_project.start_date[1], db_project.start_date[2], 1>>
        estimated_end == default_project_end(db_project.start_date, db_project.sprints)
    IN  iter_months(start_month, <<estimated_end[1], estimated_end[2], 1>>)

\* month_windows: the span of the allocation months, or without allocations
\* the months from the project's start to its estimated end
ReportingWindow(db_project, allocation_map) ==
    LET keys == DOMAIN allocation_map
        start_month ==
            IF keys # {}
            THEN LET min_key == CHOOSE k \in keys : \A o \in keys : ~KeyLess(o, k)
                 IN  <<min_key[1], min_key[2], 1>>
            ELSE <<db_project.start_date[1], db_project.start_date[2], 1>>
        end_month ==
            IF keys # {}
            THEN LET max_key == CHOOSE k \in keys : \A o \in keys : ~KeyLess(k, o)
                 IN  <<max_key[1], max_key[2], 1>>
            ELSE LET estimated_end == default_project_end(db_project.start_date,
                                                          db_project.sprints)
                 IN  <<estimated_end[1], estimated_end[2], 1>>
        month_windows == iter_months(start_month, end_month)
    IN  IF month_windows = << >> THEN <<(<<start_month[1], start_month[2]>>)>>
        ELSE month_windows

\* ties and up tell how round() settles the values half way between two
\* hundredths.  The handler's logger.info call is below the level of the
\* logger (main.py 29 leaves the root logger at WARNING) and does nothing.
get_project_dashboard(db, project_id, ties, up) ==
    IF ~\E p \in db.projects : p.id = project_id
    THEN [ status |-> 404 ]
    ELSE
      LET db_project == CHOOSE p \in db.projects : p.id = project_id
          totals == get_project_funded_and_allocated_totals(db, project_id)
          total_funded == totals.funded_hours
          total_allocated == totals.allocated_hours
          allocation_map == AllocationMap(db, project_id)
          month_windows == ReportingWindow(db_project, allocation_map)
          override_map == OverrideMap(db, project_id)
      IN  [ status |-> 200,
            project_id |-> db_project.id,
            project_name |-> db_project.name,
            total_funded_hours |-> total_funded,
            total_allocated_hours |-> total_allocated,
            utilization_pct |->
                IF total_funded # 0
                THEN Round2(total_allocated * 10000, total_funded, up)
                ELSE 0,
            burn_down_data |->
                build_burn_down_series(100 * total_funded, month_windows,
                                       allocation_map, override_map, ties) ]

(***************************************************************************)
(* The store under allocation requests: one assignment, three months.      *)
(***************************************************************************)
Months == {<<2025, 12>>, <<2026, 1>>, <<2026, 2>>}

AssignmentRequest(project_id, user_id, role_id, lcat_id, funded_hours) ==
    [ project_id |-> project_id, user_id |-> user_id, role_id |-> role_id,
      lcat_id |-> lcat_id, funded_hours |-> funded_hours ]

AllocationRequest(project_assignment_id, key, allocated_hours) ==
    [ project_assignment_id |-> project_assignment_id, year |-> key[1],
      month |-> key[2], allocated_hours |-> allocated_hours ]

UpdateRequest(allocation_id, allocated_hours) ==
    [ allocation_id |-> allocation_id, allocated_hours |-> allocated_hours ]

DistributionRequest(assignment_id, start, end, total_hours, strategy) ==
    [ assignment_id |-> assignment_id, start |-> start, end |-> end,
      total_hours |-> total_hours, strategy |-> strategy ]

AssignmentRequests ==
    { AssignmentRequest(1, 3, 1, 1, 3),
      AssignmentRequest(9, 3, 1, 1, 3),
      AssignmentRequest(1, 9, 1, 1, 3),
      AssignmentRequest(1, 3, 9, 1, 3),
      AssignmentRequest(1, 3, 1, 9, 3),
      AssignmentRequest(1, 3, 1, 1, -1) }

AllocationRequests ==
    {AllocationRequest(1, key, 1) : key \in Months}
    \cup { AllocationRequest(2, <<2026, 1>>, 1),
           AllocationRequest(1, <<2026, 13>>, 1),
           AllocationRequest(1, <<2019, 12>>, 1),
           AllocationRequest(1, <<2026, 1>>, -1) }

UpdateRequests ==
    {UpdateRequest(id, hours) : id \in 1..MaxRows, hours \in {0, 200}}
    \cup { UpdateRequest(1, -1) }

DeleteRequests == 1..MaxRows

DistributionRequests ==
    {DistributionRequest(1, start, end, None, Some("even")) :
        start \in Months, end \in Months}
    \cup {DistributionRequest(1, <<2025, 12>>, end, Some(4), Some("even")) :
            end \in Months}
    \cup {DistributionRequest(1, <<2025, 12>>, <<2026, 1>>, None, strategy) :
            strategy \in {None, Some(""), Some("EVEN"), Some("weighted")}}
    \cup { DistributionRequest(2, <<2025, 12>>, <<2026, 1>>, None, Some("even")),
           DistributionRequest(1, <<2026, 0>>, <<2026, 1>>, None, Some("even")),
           DistributionRequest(1, <<2025, 12>>, <<2051, 1>>, None, Some("even")),
           DistributionRequest(1, <<2025, 12>>, <<2026, 1>>, Some(-1), Some("even")) }

CreateProjectAssignment(requests) ==
    \E r \in requests :
        create_project_assignment(r.project_id, r.user_id, r.role_id, r.lcat_id,
                                  r.funded_hours)

CreateAllocation(requests) ==
    \E r \in requests :
        create_allocation(r.project_assignment_id, r.year, r.month, r.allocated_hours)

UpdateAllocation(requests) ==
    \E r \in requests : update_allocation(r.allocation_id, r.allocated_hours)

DeleteAllocation(requests) ==
    \E allocation_id \in requests : delete_allocation(allocation_id)

Distribute(requests) ==
    \E r \in requests :
        distribute_assignment_hours(r.assignment_id, r.start, r.end, r.total_hours,
                                    r.strategy)

Init ==
    /\ projects = SeedProjects
    /\ assignments = {}
    /\ allocations = {}
    /\ last = LastIdle
    /\ burn = BurnIdle
    /\ monthly_hour_overrides = {}
    /\ sessions = NoSessions

Next ==
    \/ CreateProjectAssignment(AssignmentRequests)
    \/ CreateAllocation(AllocationRequests)
    \/ UpdateAllocation(UpdateRequests)
    \/ DeleteAllocation(DeleteRequests)
    \/ Distribute(DistributionRequests)

Spec == Init /\ [][Next]_vars

(***************************************************************************)
(* The store under the requests that feed the reports: two projects of two *)
(* managers, two months, hours around the thresholds of the dashboard.     *)
(***************************************************************************)
ReportMonths == {<<2026, 1>>, <<2026, 2>>}
ReportHours == {44, 160, 161}
ManagerScopes == {Some(1), Some(2)}

ReportAssignmentRequests ==
    { AssignmentRequest(1, 3, 1, 1, 100),
      AssignmentRequest(2, 3, 1, 1, 100),
      AssignmentRequest(2, 3, 2, 1, 100) }

ReportAllocationRequests ==
    {AllocationRequest(assignment_id, key, hours) :
        assignment_id \in 1..MaxAssignments, key \in ReportMonths, hours \in ReportHours}

ReportsNext ==
    \/ CreateProjectAssignment(ReportAssignmentRequests)
    \/ CreateAllocation(ReportAllocationRequests)
    \/ DeleteAllocation(DeleteRequests)

SpecReports == Init /\ [][ReportsNext]_vars

(***************************************************************************)
(* The calls of the burn-down engine.                                      *)
(***************************************************************************)
BurnInit ==
    /\ projects = SeedProjects
    /\ assignments = {}
    /\ allocations = {}
    /\ last = LastIdle
    /\ monthly_hour_overrides = {}
    /\ sessions = NoSessions
    /\ \E n \in 0..MaxWindows, t \in TotalValues :
          \E burned \in SUBSET Range(WindowsOf(n)), overridden \in SUBSET Range(WindowsOf(n)) :
              \E a \in [burned -> ActualValues], o \in [overridden -> OverrideValues] :
                  burn = BurnInput(t, WindowsOf(n), a, o)

BurnNext ==
    \/ CallPlannedHoursDistribution
    \/ CallBuildBurnDownSeries

SpecBurn == BurnInit /\ [][BurnNext]_vars

(***************************************************************************)
(* The store under creates and deletes of projects' children: assignments, *)
(* allocations and overrides are created, assignments and projects deleted.*)
(***************************************************************************)
OverrideRequest(project_id, key, overridden_hours) ==
    [ project_id |-> project_id, year |-> key[1], month |-> key[2],
      overridden_hours |-> overridden_hours ]

IntegrityMonths == {<<2025, 12>>, <<2026, 2>>}

\* project 1 gets 1 funded hour, project 2 gets 2; project 3 does not exist
IntegrityAssignmentRequests ==
    {AssignmentRequest(project_id, 3, 1, 1, project_id) : project_id \in {1, 2, 3}}

IntegrityAllocationRequests ==
    {AllocationRequest(assignment_id, key, 1) :
        assignment_id \in 1..MaxAssignments, key \in IntegrityMonths}

OverrideRequests ==
    {OverrideRequest(project_id, <<2026, 1>>, 200) : project_id \in {1, 2, 3}}
    \cup { OverrideRequest(1, <<2026, 1>>, 0) }

DeleteProjectAssignment(requests) ==
    \E assignment_id \in requests : delete_project_assignment(assignment_id)

DeleteProject(requests) ==
    \E project_id \in requests : delete_project(project_id)

CreateMonthlyHourOverride(requests) ==
    \E r \in requests :
        create_monthly_hour_override(r.project_id, r.year, r.month, r.overridden_hours)

IntegrityNext ==
    \/ CreateProjectAssignment(IntegrityAssignmentRequests)
    \/ CreateAllocation(IntegrityAllocationRequests)
    \/ CreateMonthlyHourOverride(OverrideRequests)
    \/ DeleteProjectAssignment(1..MaxAssignments)
    \/ DeleteProject({1, 2, 3})

SpecIntegrity == Init /\ [][IntegrityNext]_vars

(***************************************************************************)
(* Two distribute requests for one assignment, each in a session of its    *)
(* own: the store holds the assignment (3 funded hours) and no allocation. *)
(***************************************************************************)
RaceAssignment ==
    [ id |-> 1, project_id |-> 1, user_id |-> 3, role_id |-> 1, lcat_id |-> 1,
      funded_hours |-> 3 ]

RaceRequests ==
    {DistributionRequest(1, start, end, total_hours, Some("even")) :
        start \in Months, end \in Months, total_hours \in {None, Some(4)}}
    \cup { DistributionRequest(1, <<2025, 12>>, <<2026, 1>>, None, Some("weighted")) }

ReadDistribute(requests) ==
    \E slot \in Slots, r \in requests :
        read_distribute(slot, r.assignment_id, r.start, r.end, r.total_hours, r.strategy)

CommitDistribute ==
    \E slot \in Slots : commit_distribute(slot)

RaceInit ==
    /\ projects = SeedProjects
    /\ assignments = {RaceAssignment}
    /\ allocations = {}
    /\ last = LastIdle
    /\ burn = BurnIdle
    /\ monthly_hour_overrides = {}
    /\ sessions = NoSessions

RaceNext ==
    \/ ReadDistribute(RaceRequests)
    \/ CommitDistribute

SpecRace == RaceInit /\ [][RaceNext]_vars

(***************************************************************************)
(* The store under distribute requests for two assignments of one user, on *)
(* the two projects, 3 funded hours each.                                  *)
(***************************************************************************)
FrameAssignmentRequests ==
    {AssignmentRequest(project_id, 3, 1, 1, 3) : project_id \in {1, 2}}

FrameMonths == {<<2025, 12>>, <<2026, 1>>}

FrameAllocationRequests ==
    {AllocationRequest(assignment_id, key, 1) :
        assignment_id \in 1..MaxAssignments, key \in FrameMonths}

FrameRanges ==
    { <<(<<2025, 12>>), (<<2025, 12>>)>>, <<(<<2025, 12>>), (<<2026, 1>>)>>,
      <<(<<2026, 1>>), (<<2026, 1>>)>> }

FrameDistributionRequests ==
    {DistributionRequest(assignment_id, range[1], range[2], None, Some("even")) :
        assignment_id \in {1, 2}, range \in FrameRanges}
    \cup {DistributionRequest(1, range[1], range[2], Some(4), Some("even")) :
            range \in FrameRanges}

\* last is the successful distribute of the request r with an explicit total
Repeats(r) ==
    /\ last.op = "distribute"
    /\ last.status = 200
    /\ r.total_hours # None
    /\ ~last.omitted
    /\ last.assignment_id = r.assignment_id
    /\ last.total_hours = r.total_hours[1]
    /\ last.months[1] = r.start
    /\ last.months[Len(last.months)] = r.end

\* the client sends the distribute request it was just answered once more
DistributeAgain(requests) ==
    \E r \in requests :
        /\ Repeats(r)
        /\ distribute_assignment_hours(r.assignment_id, r.start, r.end, r.total_hours,
                                       r.strategy)

FrameNext ==
    \/ CreateProjectAssignment(FrameAssignmentRequests)
    \/ CreateAllocation(FrameAllocationRequests)
    \/ Distribute(FrameDistributionRequests)
    \/ DistributeAgain(FrameDistributionRequests)

SpecFrame == Init /\ [][FrameNext]_vars

(***************************************************************************)
(* A call of iter_months, statement by statement: burn holds the           *)
(* arguments, the loop variable current, the bound last and the list       *)
(* months.  The loop is straight-line code of one request, which keeps     *)
(* running until it returns: the steps are weakly fair.                    *)
(***************************************************************************)
IterDates ==
    { <<2025, 11, 30>>, <<2025, 12, 1>>, <<2025, 12, 15>>, <<2026, 1, 10>>,
      <<2026, 1, 31>>, <<2026, 12, 31>>, <<2027, 1, 1>> }

IterCall(start, end) ==
    [ pc |-> "call", start |-> start, end |-> end,
      current |-> start, lastday |-> end, months |-> << >> ]

\* while current < last: the end month left out
LoopContinuesStrict(current, lastday) == DateLess(current, lastday)

\* while current <= last
LoopContinues(current, lastday) == ~DateLess(lastday, current)

\* lines 39-45: the early return, or the loop variables
IterMonthsEnter ==
    /\ burn.pc = "call"
    /\ burn' = IF DateLess(burn.end, burn.start)
               THEN [burn EXCEPT !.pc = "return", !.months = << >>]
               ELSE [burn EXCEPT !.pc = "loop",
                                 !.current = <<burn.start[1], burn.start[2], 1>>,
                                 !.lastday = <<burn.end[1], burn.end[2], 1>>]
    /\ UNCHANGED <<projects, assignments, allocations, last, monthly_hour_overrides, sessions>>

\* lines 46-53: one test of the loop condition and one pass of the body
IterMonthsStep ==
    /\ burn.pc = "loop"
    /\ burn' = IF LoopContinues(burn.current, burn.lastday)
               THEN [burn EXCEPT
                        !.months = Append(burn.months,
                                          <<burn.current[1], burn.current[2]>>),
                        !.current = IF burn.current[2] = 12
                                    THEN <<burn.current[1] + 1, 1, 1>>
                                    ELSE <<burn.current[1], burn.current[2] + 1, 1>>]
               ELSE [burn EXCEPT !.pc = "return"]
    /\ UNCHANGED <<projects, assignments, allocations, last, monthly_hour_overrides, sessions>>

IterInit ==
    /\ projects = SeedProjects
    /\ assignments = {}
    /\ allocations = {}
    /\ last = LastIdle
    /\ monthly_hour_overrides = {}
    /\ sessions = NoSessions
    /\ \E start \in IterDates, end \in IterDates : burn = IterCall(start, end)

IterNext ==
    \/ IterMonthsEnter
    \/ IterMonthsStep

SpecIter == IterInit /\ [][IterNext]_vars /\ WF_vars(IterNext)

(***************************************************************************)
(* Properties.                                                             *)
(***************************************************************************)
KeyOf(r) == <<r.year, r.month>>

\* the store a request's session reads
DB ==
    [ projects |-> projects, assignments |-> assignments, allocations |-> allocations,
      monthly_hour_overrides |-> monthly_hour_overrides ]

\* the manager of the project an assignment is on
OnProjectOf(a, manager) ==
    \E p \in projects : p.id = a.project_id /\ p.manager_id = Some(manager)

\* the store without the assignments, and their allocations, on projects of
\* managers other than manager
OwnStore(manager) ==
    LET own == {a \in assignments : OnProjectOf(a, manager)}
    IN  [ projects |-> projects, assignments |-> own,
          allocations |-> {r \in allocations :
                              \E a \in own : a.id = r.project_assignment_id},
          monthly_hour_overrides |-> monthly_hour_overrides ]

InList(list, user_id) == \E i \in 1..Len(list) : list[i].user_id = user_id

\* C1: planned_hours_distribution returns one value per window and, for a
\* non-empty window list, the values sum to total_hours (in hundredths)
C1_DistributionSumsToTotal ==
    burn.pc = "distributed" =>
        /\ Len(burn.distribution) = Len(burn.month_windows)
        /\ burn.month_windows # << >> =>
               SumSeq(burn.distribution) = burn.total_hours

\* a call whose last value is not its rounded proportional share: it took the drift
C1_Witness ==
    /\ burn.pc = "distributed"
    /\ Len(burn.month_windows) >= 2
    /\ burn.total_hours > 0
    /\ LET n == Len(burn.month_windows)
           caps == Capacities(burn.month_windows, burn.overrides)
       IN  \A up \in BOOLEAN :
               burn.distribution[n] # Round2(caps[n] * burn.total_hours, SumSeq(caps), up)

\* C2: both trajectories of build_burn_down_series are non-increasing, the
\* first point being at most total_hours
C2_TrajectoriesNonIncreasing ==
    burn.pc = "series" =>
        \A i \in 1..Len(burn.series) :
            /\ burn.series[i].planned_hours <=
                   (IF i = 1 THEN burn.total_hours ELSE burn.series[i - 1].planned_hours)
            /\ burn.series[i].actual_hours <=
                   (IF i = 1 THEN burn.total_hours ELSE burn.series[i - 1].actual_hours)

\* the actual burn of the first i windows
CumulativeActual(i) ==
    SumSeq([k \in 1..i |-> ActualBurn(burn.actual_allocations, burn.month_windows[k])])

\* C3: every planned_hours and actual_hours of the series is >= 0, and once
\* the cumulative actual burn reaches total_hours, actual_hours is 0 from
\* that window on
C3_RemainingNeverNegative ==
    burn.pc = "series" =>
        \A i \in 1..Len(burn.series) :
            /\ burn.series[i].planned_hours >= 0
            /\ burn.series[i].actual_hours >= 0
            /\ CumulativeActual(i) >= burn.total_hours =>
                   \A j \in i..Len(burn.series) : burn.series[j].actual_hours = 0

\* the actual burn overshoots the total before the last window, which burns more
C3_Witness ==
    /\ burn.pc = "series"
    /\ burn.total_hours > 0
    /\ \E i \in 1..Len(burn.series) :
          /\ CumulativeActual(i) > burn.total_hours
          /\ \E j \in (i + 1)..Len(burn.series) : burn.series[j].actual_burn_hours > 0

DistributeDone == last.op = "distribute" /\ last.status = 200

\* C4: a successful distribute of T over n months gives month i (from 0)
\* floor(T/n) + (1 if i < T mod n else 0) hours: the shares sum to T,
\* differ by at most 1 and never increase from a month to a later one
C4_EvenShares ==
    DistributeDone =>
        LET n == Len(last.months)
            T == last.total_hours
            hours == [i \in 1..Len(last.response) |-> last.response[i].allocated_hours]
        IN  /\ n >= 1 /\ T >= 0
            /\ Len(hours) = n
            /\ \A i \in 1..n :
                  hours[i] = (T \div n) + (IF i - 1 < T % n THEN 1 ELSE 0)
            /\ SumSeq(hours) = T
            /\ \A i, j \in 1..n :
                  /\ hours[i] - hours[j] <= 1
                  /\ i < j => hours[i] >= hours[j]

\* 4 hours over three months: 2, 1, 1
C4_Witness ==
    /\ DistributeDone
    /\ last.total_hours = 4
    /\ [i \in 1..Len(last.response) |-> last.response[i].allocated_hours] = <<2, 1, 1>>

\* C5: after a successful distribute every month of the range has exactly
\* one row of the assignment, carrying the month's share; a row that was
\* there keeps its id, a month without a row gets a row with a fresh id,
\* and the response lists the rows of the range in month order
C5_UpsertPerMonth ==
    [][ (last'.op = "distribute" /\ last'.status = 200) =>
          LET n == Len(last'.months)
              T == last'.total_hours
          IN  /\ Len(last'.response) = n
              /\ \A i \in 1..n :
                    LET before == {r \in allocations :
                                      /\ r.project_assignment_id = last'.assignment_id
                                      /\ KeyOf(r) = last'.months[i]}
                        after == {r \in allocations' :
                                      /\ r.project_assignment_id = last'.assignment_id
                                      /\ KeyOf(r) = last'.months[i]}
                    IN  /\ Cardinality(after) = 1
                        /\ \A r \in after :
                              /\ r.allocated_hours =
                                     (T \div n) + (IF i - 1 < T % n THEN 1 ELSE 0)
                              /\ last'.response[i] = r
                              /\ \A b \in before : b.id = r.id
                              /\ before = {} => r.id \notin {x.id : x \in allocations}
              /\ \A i, j \in 1..n :
                    i < j => DateLess(<<last'.months[i][1], last'.months[i][2], 1>>,
                                      <<last'.months[j][1], last'.months[j][2], 1>>)
      ]_vars

\* a distribute that updated a row in place and created another
C5_Witness ==
    /\ DistributeDone
    /\ \E i, j \in 1..Len(last.response) :
          /\ last.response[i].id \in last.existing
          /\ last.response[j].id \notin last.existing
          /\ last.response[i].allocated_hours > 0

\* C6: each manager-scoped aggregation gives, for a manager, the result it
\* gives on the store without the assignments and allocations on the
\* projects of the other managers
C6_ScopedAggregationsIsolated ==
    \A manager \in {1, 2} :
        /\ get_role_capacity_summary(DB, Some(manager))
              = get_role_capacity_summary(OwnStore(manager), Some(manager))
        /\ get_monthly_user_allocation_totals(DB, Some(manager))
              = get_monthly_user_allocation_totals(OwnStore(manager), Some(manager))
        /\ get_monthly_user_project_allocations(DB, None, Some(manager))
              = get_monthly_user_project_allocations(OwnStore(manager), None, Some(manager))
        /\ get_user_role_funding_totals(DB, Some(manager))
              = get_user_role_funding_totals(OwnStore(manager), Some(manager))

\* both managers have an assignment with allocated hours
C6_Witness ==
    \A manager \in {1, 2} :
        /\ get_monthly_user_allocation_totals(DB, Some(manager)) # {}
        /\ get_role_capacity_summary(DB, Some(manager)) # {}

\* C7: the role utilization snapshot a manager is served is restricted to
\* the assignments on that manager's projects
C7_SnapshotScoped ==
    \A manager \in {1, 2}, key \in ReportMonths :
        get_role_utilization_snapshot(DB, key[1], key[2])
            = get_role_utilization_snapshot(OwnStore(manager), key[1], key[2])

\* the hours of a user in a month on the projects of a scope, summed over the rows
ScopeHours(user_id, today, manager_id) ==
    SumHours({r \in allocations :
                /\ KeyOf(r) = today
                /\ \E a \in assignments :
                      /\ a.id = r.project_assignment_id
                      /\ a.user_id = user_id
                      /\ (manager_id = None \/ OnProjectOf(a, manager_id[1]))})

C9_OverAllocatedAcrossProjects ==
    \A manager \in {1, 2}, today \in ReportMonths :
        \A u \in Users :
            (/\ u.system_role = "Employee"
             /\ u.manager_id = Some(manager)
             /\ ScopeHours(u.id, today, None) > standard_month_hours(today[1], today[2]))
            => InList(get_portfolio_dashboard(DB, Some(manager), today).over_allocated_employees,
                      u.id)

\* C10: at most one allocation row per (assignment, year, month)
C10_OneRowPerMonth ==
    \A r1, r2 \in allocations :
        (/\ r1.project_assignment_id = r2.project_assignment_id
         /\ KeyOf(r1) = KeyOf(r2)) => r1 = r2

\* a create-allocation for a key that has a row was refused; the row is still alone
C10_Witness ==
    /\ last.op = "create_allocation"
    /\ last.status = 500
    /\ allocations # {}

\* C11: at most one assignment per (project, user) pair in every state, and
\* a create-assignment for a pair that has one answers 400 and leaves the
\* assignments as they were
C11_OneAssignmentPerPair ==
    /\ [](\A a1, a2 \in assignments :
            (a1.project_id = a2.project_id /\ a1.user_id = a2.user_id) => a1 = a2)
    /\ [][\A r \in ReportAssignmentRequests :
            (/\ \E a \in assignments :
                    a.project_id = r.project_id /\ a.user_id = r.user_id
             /\ create_project_assignment(r.project_id, r.user_id, r.role_id,
                                          r.lcat_id, r.funded_hours))
            => (last'.status = 400 /\ assignments' = assignments)]_vars

\* a create-assignment was refused with 400 while the pair's assignment stands
C11_Witness ==
    /\ last.op = "create_assignment"
    /\ last.status = 400
    /\ \E a \in assignments : a.project_id = 2 /\ a.user_id = 3

\* C12: every allocation refers to an assignment of the store and every
\* assignment and override to a project of the store; a delete of an
\* assignment leaves none of its allocations, a delete of a project none of
\* its assignments, of their allocations or of its overrides
C12_ReferentialIntegrity ==
    /\ [](/\ \A r \in allocations : \E a \in assignments : a.id = r.project_assignment_id
          /\ \A a \in assignments : \E p \in projects : p.id = a.project_id
          /\ \A o \in monthly_hour_overrides : \E p \in projects : p.id = o.project_id)
    /\ [][/\ \A id \in 1..MaxAssignments :
               ((\E a \in assignments : a.id = id) /\ delete_project_assignment(id))
               => (/\ last'.status = 204
                   /\ \A a \in assignments' : a.id # id
                   /\ \A r \in allocations' : r.project_assignment_id # id)
          /\ \A id \in {1, 2} :
               ((\E p \in projects : p.id = id) /\ delete_project(id))
               => (/\ last'.status = 204
                   /\ \A p \in projects' : p.id # id
                   /\ \A a \in assignments' : a.project_id # id
                   /\ \A o \in monthly_hour_overrides' : o.project_id # id
                   /\ \A r \in allocations' :
                         \A a \in assignments :
                             a.id = r.project_assignment_id => a.project_id # id)]_vars

\* a project was deleted while another project keeps an assignment with an
\* allocation and an override
C12_Witness ==
    /\ last.op = "delete_project"
    /\ last.status = 204
    /\ Cardinality(projects) = 1
    /\ allocations # {}
    /\ monthly_hour_overrides # {}

\* both requests are done, both without a total of their own
BothOmitted ==
    \A slot \in Slots :
        /\ sessions[slot].pc = "done"
        /\ sessions[slot].omitted

\* each request loaded the allocations before the other committed
Raced == \A slot \in Slots : sessions[slot].read_after = {}

DisjointRanges == Range(sessions[1].months) \cap Range(sessions[2].months) = {}

\* C13: two omitted-total distributes of one assignment, run one after the
\* other in either order, never allocate more than the funded hours; run so
\* that each loads the allocations before the other commits, over disjoint
\* ranges, both succeed and each distributes all the funded hours, a store
\* no serial order gives
C13_RaceBreaksSerialOutcome ==
    BothOmitted =>
        /\ ~Raced => /\ \A slot \in Slots : sessions[slot].status = 200
                      /\ SumHours(allocations) <= RaceAssignment.funded_hours
        /\ (Raced /\ DisjointRanges) =>
              /\ \A slot \in Slots : sessions[slot].status = 200
              /\ SumHours(allocations) = 2 * RaceAssignment.funded_hours

\* the raced requests left more hours allocated than are funded
C13_Witness ==
    /\ BothOmitted
    /\ Raced
    /\ DisjointRanges
    /\ SumHours(allocations) > RaceAssignment.funded_hours

\* C14: a distribute for an existing assignment with a well-formed range
\* and a strategy that is not "even" answers 400 and leaves every
\* allocation row as it was
C14_OnlyEvenAccepted ==
    [][\A r \in DistributionRequests :
          (/\ r.strategy # Some("even")
           /\ get_project_assignment(r.assignment_id) # {}
           /\ distribute_assignment_hours(r.assignment_id, r.start, r.end,
                                          r.total_hours, r.strategy))
          => (last'.status = 400 /\ allocations' = allocations)]_vars

\* the end month of the request comes before its start month
EndPrecedesStart(r) ==
    \/ r.end[1] < r.start[1]
    \/ r.end[1] = r.start[1] /\ r.end[2] < r.start[2]

\* C15: a distribute whose end month precedes its start month answers 400
\* (the range has no month) and a distribute for an assignment that does
\* not exist answers 404; either leaves every allocation row as it was
C15_EmptyRangeRejected ==
    [][\A r \in DistributionRequests :
          (/\ last'.op = "distribute"
           /\ ValidYear(r.start[1]) /\ ValidMonth(r.start[2])
           /\ ValidYear(r.end[1]) /\ ValidMonth(r.end[2])
           /\ (r.total_hours = None \/ r.total_hours[1] >= 0)
           /\ (get_project_assignment(r.assignment_id) = {} \/ EndPrecedesStart(r))
           /\ distribute_assignment_hours(r.assignment_id, r.start, r.end,
                                          r.total_hours, r.strategy))
          => /\ allocations' = allocations
             /\ last'.status = IF get_project_assignment(r.assignment_id) = {}
                               THEN 404 ELSE 400]_vars

\* an empty range was rejected while the assignment has allocation rows
C15_Witness ==
    /\ last.op = "distribute"
    /\ last.status = 400
    /\ last.detail = "The month range must include at least one month."
    /\ AllocationsOf(1) # {}

\* C16: a successful distribute without total_hours distributes
\* max(funded_hours - S, 0), S being the hours of all the rows the
\* assignment had before the call, inside the range or not; with
\* total_hours it distributes exactly that value
C16_TotalResolved ==
    [][\A r \in DistributionRequests :
          (/\ last'.op = "distribute"
           /\ last'.status = 200
           /\ last'.months[1] = r.start
           /\ last'.months[Len(last'.months)] = r.end
           /\ distribute_assignment_hours(r.assignment_id, r.start, r.end,
                                          r.total_hours, r.strategy))
          => LET assignment == CHOOSE a \in assignments : a.id = r.assignment_id
                 S == SumHours({x \in allocations :
                                   x.project_assignment_id = r.assignment_id})
                 T == IF r.total_hours = None
                      THEN Max(assignment.funded_hours - S, 0)
                      ELSE r.total_hours[1]
             IN  /\ SumSeq([i \in 1..Len(last'.response) |->
                               last'.response[i].allocated_hours]) = T
                 /\ SumHours({x \in allocations' :
                                /\ x.project_assignment_id = r.assignment_id
                                /\ KeyOf(x) \in Range(last'.months)}) = T]_vars

\* the remaining hours were distributed while the assignment had a row
\* inside the range and a row with hours outside it
C16_Witness ==
    /\ DistributeDone
    /\ last.omitted
    /\ last.total_hours > 0
    /\ last.existing # {}
    /\ \E x \in AllocationsOf(last.assignment_id) :
          /\ KeyOf(x) \notin Range(last.months)
          /\ x.allocated_hours > 0

\* C17: every allocation row has allocated_hours >= 0 and a month in
\* 1..12; a create or an update with negative hours or with a month
\* outside 1..12 answers 422 and leaves the store as it was; a well-formed
\* create for an existing assignment and a free month, and a well-formed
\* update of an existing row, store the hours of the request whatever
\* their size
C17_HoursAndMonthBounds ==
    /\ [](\A x \in allocations :
            x.allocated_hours >= 0 /\ x.month >= 1 /\ x.month <= 12)
    /\ [][/\ \A r \in AllocationRequests :
              (/\ last'.op = "create_allocation"
               /\ create_allocation(r.project_assignment_id, r.year, r.month,
                                    r.allocated_hours))
              => /\ (r.allocated_hours < 0 \/ r.month < 1 \/ r.month > 12)
                      => (last'.status = 422 /\ allocations' = allocations)
                 /\ (/\ r.allocated_hours >= 0
                     /\ r.month >= 1 /\ r.month <= 12
                     /\ r.year >= 2020 /\ r.year <= 2050
                     /\ \E a \in assignments : a.id = r.project_assignment_id
                     /\ ~\E x \in allocations :
                            /\ x.project_assignment_id = r.project_assignment_id
                            /\ KeyOf(x) = <<r.year, r.month>>)
                      => /\ last'.status = 201
                         /\ \E x \in allocations' \ allocations :
                               /\ x.project_assignment_id = r.project_assignment_id
                               /\ KeyOf(x) = <<r.year, r.month>>
                               /\ x.allocated_hours = r.allocated_hours
          /\ \A r \in UpdateRequests :
              (/\ last'.op = "update_allocation"
               /\ update_allocation(r.allocation_id, r.allocated_hours))
              => /\ r.allocated_hours < 0
                      => (last'.status = 422 /\ allocations' = allocations)
                 /\ (r.allocated_hours >= 0
                        /\ \E x \in allocations : x.id = r.allocation_id)
                      => /\ last'.status = 200
                         /\ \E x \in allocations' :
                               /\ x.id = r.allocation_id
                               /\ x.allocated_hours = r.allocated_hours]_vars

\* a row carries more hours than its assignment is funded for and than any
\* month has standard hours
C17_Witness ==
    /\ last.op \in {"create_allocation", "update_allocation"}
    /\ last.status \in {200, 201}
    /\ \E x \in allocations, a \in assignments :
          /\ <<x>> = last.response
          /\ a.id = x.project_assignment_id
          /\ x.allocated_hours > a.funded_hours
          /\ x.allocated_hours > standard_month_hours(x.year, x.month)

\* the ways round() may settle the ties of a project's dashboard
DashboardTies(project) ==
    TieChoices(100 * SumFunded({a \in assignments : a.project_id = project.id}),
               ReportingWindow(project, AllocationMap(DB, project.id)),
               OverrideMap(DB, project.id))

\* the allocation rows of the assignments on a project
RowsOfProject(project) ==
    {r \in allocations :
        \E a \in assignments :
            a.id = r.project_assignment_id /\ a.project_id = project.id}

\* C18: the dashboard of a project reports as total_allocated_hours the sum
\* of the allocation rows of the project's assignments, and the last point
\* of its burn-down series has actual_hours = total_funded_hours -
\* total_allocated_hours when that is not negative, and 0 otherwise
C18_DashboardTotals ==
    \A project \in projects :
        \A ties \in DashboardTies(project), up \in BOOLEAN :
            LET dashboard == get_project_dashboard(DB, project.id, ties, up)
                series == dashboard.burn_down_data
                funded == dashboard.total_funded_hours
                allocated == dashboard.total_allocated_hours
            IN  /\ dashboard.status = 200
                /\ allocated = SumHours(RowsOfProject(project))
                /\ Len(series) >= 1
                /\ series[Len(series)].actual_hours =
                       IF allocated <= funded THEN 100 * (funded - allocated) ELSE 0

\* one project has more hours allocated than funded, another has funded
\* hours left
C18_Witness ==
    \E p1, p2 \in projects :
        LET d1 == get_project_dashboard(DB, p1.id,
                      CHOOSE ties \in DashboardTies(p1) : TRUE, TRUE)
            d2 == get_project_dashboard(DB, p2.id,
                      CHOOSE ties \in DashboardTies(p2) : TRUE, TRUE)
        IN  /\ d1.total_allocated_hours > d1.total_funded_hours
            /\ d1.total_funded_hours > 0
            /\ d2.total_allocated_hours > 0
            /\ d2.total_allocated_hours < d2.total_funded_hours
            /\ d2.burn_down_data[Len(d2.burn_down_data)].actual_hours > 0

\* C19: the actual_burn_hours of a project's burn-down series sum to the
\* dashboard's total_allocated_hours
C19_BurnSumsToAllocated ==
    \A project \in projects :
        \A ties \in DashboardTies(project), up \in BOOLEAN :
            LET dashboard == get_project_dashboard(DB, project.id, ties, up)
                series == dashboard.burn_down_data
            IN  SumSeq([i \in 1..Len(series) |-> series[i].actual_burn_hours])
                    = 100 * dashboard.total_allocated_hours

\* a project with hours in December 2025 and in February 2026: its start
\* date and sprints alone would give a window without one of the two
C19_Witness ==
    \E project \in projects :
        LET rows == RowsOfProject(project)
        IN  /\ \E r \in rows : KeyOf(r) = <<2025, 12>> /\ r.allocated_hours > 0
            /\ \E r \in rows : KeyOf(r) = <<2026, 2>> /\ r.allocated_hours > 0

\* the first day of the month after the month of a date
NextMonth(d) == IF d[2] = 12 THEN <<d[1] + 1, 1, 1>> ELSE <<d[1], d[2] + 1, 1>>

\* C20: the burn-down series of a project starts at the earliest month
\* with an allocation row of the project and ends at the latest, or with
\* no such row starts at the month of start_date and ends at the month of
\* start_date + 14 * sprints days; each point is the month after the point
\* before it, sprint_index counts the points from 1, and there is a point
C20_SeriesWindow ==
    \A project \in projects :
        \A ties \in DashboardTies(project), up \in BOOLEAN :
            LET series == get_project_dashboard(DB, project.id, ties, up).burn_down_data
                n == Len(series)
                keys == {KeyOf(r) : r \in RowsOfProject(project)}
                end == AddDays(project.start_date, 14 * project.sprints)
                first_month ==
                    IF keys # {}
                    THEN CHOOSE k \in keys : \A o \in keys : ~KeyLess(o, k)
                    ELSE <<project.start_date[1], project.start_date[2]>>
                last_month ==
                    IF keys # {}
                    THEN CHOOSE k \in keys : \A o \in keys : ~KeyLess(k, o)
                    ELSE <<end[1], end[2]>>
            IN  /\ n >= 1
                /\ series[1].date = <<first_month[1], first_month[2], 1>>
                /\ series[n].date = <<last_month[1], last_month[2], 1>>
                /\ \A i \in 1..(n - 1) : series[i + 1].date = NextMonth(series[i].date)
                /\ \A i \in 1..n : series[i].sprint_index = i

\* one project has rows in December and February and none in January,
\* another has no row at all
C20_Witness ==
    \E p1, p2 \in projects :
        /\ {KeyOf(r) : r \in RowsOfProject(p1)} = {<<2025, 12>>, <<2026, 2>>}
        /\ Len(get_project_dashboard(DB, p1.id,
                   CHOOSE ties \in DashboardTies(p1) : TRUE, TRUE).burn_down_data) = 3
        /\ RowsOfProject(p2) = {}
        /\ \E a \in assignments : a.project_id = p2.id

\* the capacity a window has by the contract: its positive override, or
\* the standard hours of the month
ContractCapacity(key) ==
    IF key \in DOMAIN burn.overrides /\ burn.overrides[key] > 0
    THEN burn.overrides[key]
    ELSE standard_month_hours(key[1], key[2])

\* value (in hundredths) is a hundredth nearest to num / den
Nearest(value, num, den) ==
    LET distance == IF value * den >= num THEN value * den - num ELSE num - value * den
    IN  2 * distance <= den

\* C21: every value of planned_hours_distribution but the last is
\* total_hours * capacity_i / (sum of the capacities) rounded to 2 decimals,
\* capacity_i being the positive override of the month or else its standard
\* hours; the last value is what is left of total_hours
C21_ProportionalShares ==
    (burn.pc = "distributed" /\ burn.month_windows # << >>) =>
        LET n == Len(burn.month_windows)
            capacity == [i \in 1..n |-> ContractCapacity(burn.month_windows[i])]
            total_capacity == SumSeq(capacity)
        IN  /\ \A i \in 1..(n - 1) :
                  Nearest(burn.distribution[i], burn.total_hours * capacity[i],
                          total_capacity)
            /\ burn.distribution[n] =
                  burn.total_hours - SumSeq(SubSeq(burn.distribution, 1, n - 1))

\* a positive override and an override of 0 shape the shares, and the last
\* value is not a rounded share of its own
C21_Witness ==
    /\ burn.pc = "distributed"
    /\ burn.total_hours > 0
    /\ LET n == Len(burn.month_windows)
           capacity == [i \in 1..n |-> ContractCapacity(burn.month_windows[i])]
       IN  /\ n >= 3
           /\ \E i, j \in 1..(n - 1) :
                 /\ burn.month_windows[i] \in DOMAIN burn.overrides
                 /\ burn.overrides[burn.month_windows[i]] > 0
                 /\ burn.distribution[i] > 0
                 /\ burn.month_windows[j] \in DOMAIN burn.overrides
                 /\ burn.overrides[burn.month_windows[j]] = 0
           /\ ~Nearest(burn.distribution[n], burn.total_hours * capacity[n],
                       SumSeq(capacity))

\* the assignments in a scope: all of them, or those on a manager's projects
InScope(manager_id) ==
    {a \in assignments : manager_id = None \/ OnProjectOf(a, manager_id[1])}

\* the allocation rows of a set of assignments
RowsOf(own) == {r \in allocations : \E a \in own : a.id = r.project_assignment_id}

\* C22: in the role capacity summary of a scope, a role with an in-scope
\* assignment has exactly one entry; its funded_hours is the sum of the
\* funded_hours of the role's in-scope assignments, each counted once, and
\* its allocated_hours the sum of all allocation rows of those assignments
C22_RoleCapacitySummary ==
    \A manager_id \in {None} \cup ManagerScopes, role \in Roles :
        LET own == {a \in InScope(manager_id) : a.role_id = role.id}
            entries == {e \in get_role_capacity_summary(DB, manager_id) :
                           e.role_id = role.id}
        IN  own # {} =>
              /\ Cardinality(entries) = 1
              /\ \A e \in entries :
                    /\ e.funded_hours = SumFunded(own)
                    /\ e.allocated_hours = SumHours(RowsOf(own))

\* a role with two assignments: one has two allocation rows, the other none
C22_Witness ==
    \E a1, a2 \in assignments :
        /\ a1.role_id = a2.role_id
        /\ Cardinality(RowsOf({a1})) = 2
        /\ RowsOf({a2}) = {}
        /\ a1 # a2
        /\ \E e \in get_role_capacity_summary(DB, None) :
              /\ e.role_id = a1.role_id
              /\ e.funded_hours = a1.funded_hours + a2.funded_hours

\* C23: the role utilization snapshot of a month has exactly one row for a
\* role with an assignment or an allocation of the month, and none for a
\* role with neither; the row's allocated_hours is the sum of the role's
\* allocation rows of that month, its funded_hours the sum of the
\* funded_hours of all the role's assignments, and assignment_count their
\* number
C23_RoleUtilizationSnapshot ==
    \A key \in ReportMonths, role \in Roles :
        LET own == {a \in assignments : a.role_id = role.id}
            monthly == {r \in RowsOf(own) : KeyOf(r) = key}
            rows == {e \in get_role_utilization_snapshot(DB, key[1], key[2]) :
                        e.role_id = role.id}
        IN  IF own = {} /\ monthly = {}
            THEN rows = {}
            ELSE /\ Cardinality(rows) = 1
                 /\ \A e \in rows :
                       /\ e.allocated_hours = SumHours(monthly)
                       /\ e.funded_hours = SumFunded(own)
                       /\ e.assignment_count = Cardinality(own)

\* one role has hours in January and other hours in February, the other
\* role an assignment without hours
C23_Witness ==
    \E a1, a2 \in assignments :
        /\ a1.role_id # a2.role_id
        /\ RowsOf({a2}) = {}
        /\ \E r1, r2 \in RowsOf({a1}) :
              /\ KeyOf(r1) = <<2026, 1>>
              /\ KeyOf(r2) = <<2026, 2>>
              /\ r1.allocated_hours # r2.allocated_hours
        /\ Cardinality(get_role_utilization_snapshot(DB, 2026, 1)) = 2

\* C24: the capacity_hours of a window is the override of its month when
\* there is one above 0, and max(standard_month_hours, 1) when there is no
\* override at all, none for the month, or one that is not above 0; it is
\* at least 1
C24_MonthCapacity ==
    burn.pc = "series" =>
        \A i \in 1..Len(burn.series) :
            LET key == burn.month_windows[i]
                capacity == burn.series[i].capacity_hours
                fallback == Max(standard_month_hours(key[1], key[2]), 1)
            IN  /\ capacity >= 1
                /\ key \notin DOMAIN burn.overrides => capacity = fallback
                /\ key \in DOMAIN burn.overrides =>
                      capacity = IF burn.overrides[key] > 0
                                 THEN burn.overrides[key] ELSE fallback

\* one series with a window under a positive override, a window under an
\* override of 0 and a window without override
C24_Witness ==
    /\ burn.pc = "series"
    /\ \E i, j, k \in 1..Len(burn.series) :
          /\ burn.month_windows[i] \in DOMAIN burn.overrides
          /\ burn.overrides[burn.month_windows[i]] = 1
          /\ burn.series[i].capacity_hours = 1
          /\ burn.month_windows[j] \in DOMAIN burn.overrides
          /\ burn.overrides[burn.month_windows[j]] = 0
          /\ burn.series[j].capacity_hours > 1
          /\ burn.month_windows[k] \notin DOMAIN burn.overrides

\* what a returned call of iter_months has in months
IterResult ==
    LET n == Len(burn.months)
    IN  IF DateLess(burn.end, burn.start) THEN burn.months = << >>
        ELSE /\ n = 12 * (burn.end[1] - burn.start[1])
                     + (burn.end[2] - burn.start[2]) + 1
             /\ burn.months[1] = <<burn.start[1], burn.start[2]>>
             /\ burn.months[n] = <<burn.end[1], burn.end[2]>>
             /\ \A i \in 1..(n - 1) :
                   burn.months[i + 1] =
                       IF burn.months[i][2] = 12
                       THEN <<burn.months[i][1] + 1, 1>>
                       ELSE <<burn.months[i][1], burn.months[i][2] + 1>>
             /\ \A i, j \in 1..n : i < j => KeyLess(burn.months[i], burn.months[j])
             /\ burn.months = iter_months(burn.start, burn.end)

\* C25: a call of iter_months returns; with end >= start it returns the
\* consecutive months from the month of start to the month of end, in
\* increasing order, 12 * (end.year - start.year) + (end.month -
\* start.month) + 1 of them, January of the next year after December; with
\* end < start it returns the empty list
C25_IterMonths ==
    /\ [](burn.pc = "return" => IterResult)
    /\ <>(burn.pc = "return")

\* a returned call from a day late in a month to an earlier day of a month
\* of the next year
C25_Witness ==
    /\ burn.pc = "return"
    /\ burn.start = <<2025, 12, 15>>
    /\ burn.end = <<2026, 1, 10>>
    /\ burn.months = << <<2025, 12>>, <<2026, 1>> >>

\* C26: every row of the monthly user allocation totals scoped to a manager
\* is of a user who is an Employee with that manager as manager_id
C26_TotalsOnlyOwnEmployees ==
    \A manager \in {1, 2} :
        \A row \in get_monthly_user_allocation_totals(DB, Some(manager)) :
            \E u \in Users :
                /\ u.id = row.user_id
                /\ u.system_role = "Employee"
                /\ u.manager_id = Some(manager)

\* C27: a successful distribute on an assignment leaves alone the rows of
\* the assignment outside the range, the rows of the other assignments and
\* the assignments themselves; no row goes away, and a new row is a row of
\* the assignment in the range
C27_DistributeFrame ==
    [][(last'.op = "distribute" /\ last'.status = 200) =>
          LET touched(r) == /\ r.project_assignment_id = last'.assignment_id
                            /\ KeyOf(r) \in Range(last'.months)
          IN  /\ \A r \in allocations : ~touched(r) => r \in allocations'
              /\ \A r \in allocations : \E x \in allocations' : x.id = r.id
              /\ \A x \in allocations' \ allocations : touched(x)
              /\ assignments' = assignments]_vars

\* a distribute changed rows of its assignment while the assignment has a
\* row with hours outside the range and another assignment has a row with
\* hours in a month of the range
C27_Witness ==
    /\ DistributeDone
    /\ last.total_hours > 0
    /\ \E r \in allocations :
          /\ r.project_assignment_id = last.assignment_id
          /\ KeyOf(r) \notin Range(last.months)
          /\ r.allocated_hours > 0
    /\ \E r \in allocations :
          /\ r.project_assignment_id # last.assignment_id
          /\ KeyOf(r) \in Range(last.months)
          /\ r.allocated_hours > 0

\* C28: a distribute with an explicit total_hours sent a second time, with
\* no other write in between, succeeds with the same response and leaves
\* the store as the first call left it
C28_DistributeIdempotent ==
    [][\A r \in FrameDistributionRequests :
          (/\ Repeats(r)
           /\ last'.op = "distribute"
           /\ distribute_assignment_hours(r.assignment_id, r.start, r.end,
                                          r.total_hours, r.strategy))
          => /\ last'.status = 200
             /\ last'.response = last.response
             /\ allocations' = allocations
             /\ assignments' = assignments
             /\ projects' = projects
             /\ monthly_hour_overrides' = monthly_hour_overrides]_vars

\* the second of two distributes of 4 hours over December 2025 and January
\* 2026: it found the two rows of 2 hours the first one wrote, while the
\* other assignment has a row
C28_Witness ==
    /\ DistributeDone
    /\ ~last.omitted
    /\ last.total_hours = 4
    /\ Len(last.months) = 2
    /\ Cardinality(last.existing) = 2
    /\ \A x \in AllocationsOf(last.assignment_id) : x.allocated_hours = 2
    /\ \E x \in allocations : x.project_assignment_id # last.assignment_id

\* the hours of all rows of an assignment
AssignmentSum(rows, assignment_id) ==
    SumHours({x \in rows : x.project_assignment_id = assignment_id})

\* a distribute without total_hours on an assignment within its budget succeeds
OmittedWithinBudget ==
    /\ last'.op = "distribute"
    /\ last'.status = 200
    /\ last'.omitted
    /\ \A a \in assignments :
          a.id = last'.assignment_id =>
              AssignmentSum(allocations, a.id) <= a.funded_hours

\* C29: a distribute without total_hours on an assignment whose rows sum to
\* at most its funded hours leaves the rows of the assignment summing to at
\* most its funded hours, whatever the range
C29_OmittedStaysWithinBudget ==
    [][OmittedWithinBudget =>
          \A a \in assignments' :
              a.id = last'.assignment_id =>
                  AssignmentSum(allocations', a.id) <= a.funded_hours]_vars

\* the remaining hours were distributed over a range next to a row with
\* hours outside it, and the assignment is within its budget
C29_Witness ==
    /\ DistributeDone
    /\ last.omitted
    /\ last.total_hours > 0
    /\ \E x \in AllocationsOf(last.assignment_id) :
          /\ KeyOf(x) \notin Range(last.months)
          /\ x.allocated_hours > 0
    /\ \A a \in assignments :
          a.id = last.assignment_id =>
              AssignmentSum(allocations, a.id) <= a.funded_hours

====
